---- MODULE Spec2Model ----
(***************************************************************************)
(* A model of scriptsnoop.py: the regular-expression catalog, the comment  *)
(* test, the quote stripper, the per-line dual-pass matcher of scan_file,  *)
(* and main's orchestration over a small file system.                      *)
(*                                                                         *)
(* Text is a sequence of one-character strings.  A regular expression is   *)
(* a syntax tree; Ends computes the match ends the way a backtracking      *)
(* matcher can reach them, so re.search / re.match / re.sub are computed   *)
(* from the pattern and never assumed.                                     *)
(***************************************************************************)
EXTENDS Integers, Sequences, FiniteSets, TLC

VARIABLES
    pc,           \* main's position: prompt, scan, read, or a terminal state
    target_dir,   \* main: the normalised directory typed by the operator
    files,        \* main: the result of find_risky_files
    idx,          \* main: 1-based position of the for loop over files
    calls,        \* calls[i]: how many times scan_file ran on files[i]
    line_num,     \* scan_file: enumerate's counter for the open file
    content,      \* the lines the open file has delivered so far
    matches,      \* scan_file: its local list
    all_matches,  \* main: the aggregated list
    errors,       \* paths printed by "Error reading ..."
    dir_errors,   \* how many times "directory does not exist" was printed
    reported,     \* the findings printed by the report
    line,         \* single-line run: the physical line handed to the loop body
    patterns,     \* single-line run: the catalog handed to scan_file
    result,       \* single-line run: the findings of that line
    stripped,     \* stripper run: the output of the re.sub of line 64
    phase         \* single-line / stripper run: "in" before, "out" after

vars == <<pc, target_dir, files, idx, calls, line_num, content, matches,
          all_matches, errors, dir_errors, reported,
          line, patterns, result, stripped, phase>>

mainVars == <<pc, target_dir, files, idx, calls, line_num, content, matches,
              all_matches, errors, dir_errors, reported>>

lineVars == <<line, patterns, result, stripped, phase>>

(***************************************************************************)
(* Bounds of the model.                                                    *)
(***************************************************************************)
MaxLines == 2   \* lines a file delivers before its end
MaxFrags == 3   \* fragments concatenated into one line of the single-line run
MaxLen == 5     \* length of the strings of the stripper run

TruncLen == 100

(***************************************************************************)
(* Characters.                                                             *)
(***************************************************************************)
\* re.IGNORECASE compares characters after case folding.
Folded ==
    [c \in {"A","B","C","D","E","F","G","H","I","J","K","L","M",
             "N","O","P","Q","R","S","T","U","V","W","X","Y","Z"} |->
        CASE c = "A" -> "a" [] c = "B" -> "b" [] c = "C" -> "c" [] c = "D" -> "d"
          [] c = "E" -> "e" [] c = "F" -> "f" [] c = "G" -> "g" [] c = "H" -> "h"
          [] c = "I" -> "i" [] c = "J" -> "j" [] c = "K" -> "k" [] c = "L" -> "l"
          [] c = "M" -> "m" [] c = "N" -> "n" [] c = "O" -> "o" [] c = "P" -> "p"
          [] c = "Q" -> "q" [] c = "R" -> "r" [] c = "S" -> "s" [] c = "T" -> "t"
          [] c = "U" -> "u" [] c = "V" -> "v" [] c = "W" -> "w" [] c = "X" -> "x"
          [] c = "Y" -> "y" [] c = "Z" -> "z"]

Lower(c) == IF c \in DOMAIN Folded THEN Folded[c] ELSE c

\* What str.strip() removes and what \s matches.
Whitespace == {" ", "\t", "\n", "\r", "\f"}

(***************************************************************************)
(* Regular expressions as syntax trees.                                    *)
(***************************************************************************)
Lit(c) == [t |-> "lit", c |-> c]

Ws == [t |-> "ws"]

Dot == [t |-> "dot"]

OneOf(cs) == [t |-> "set", cs |-> cs]

NoneOf(cs) == [t |-> "nset", cs |-> cs]

Cat(xs) == [t |-> "cat", xs |-> xs]

Alt(xs) == [t |-> "alt", xs |-> xs]

Star(x) == [t |-> "star", x |-> x]

Plus(x) == Cat(<<x, Star(x)>>)

Opt(x) == Alt(<<x, Cat(<<>>)>>)

Str(s) == Cat([k \in 1..Len(s) |-> Lit(s[k])])

RECURSIVE Ends(_, _, _, _)
RECURSIVE CatEnds(_, _, _, _, _)
RECURSIVE StarEnds(_, _, _, _, _)

\* The positions where a match of re that starts at a position of the set
\* from can end in s (a position is the index of the next unread character).
Ends(re, s, from, icase) ==
    LET Step(ok(_)) == {i + 1 : i \in {j \in from : j <= Len(s) /\ ok(s[j])}}
        IsLit(c) == IF icase THEN Lower(c) = Lower(re.c) ELSE c = re.c
        IsWs(c) == c \in Whitespace
        IsDot(c) == c # "\n"
        InSet(c) == c \in re.cs
        NotInSet(c) == c \notin re.cs
    IN  CASE re.t = "lit" -> Step(IsLit)
          [] re.t = "ws" -> Step(IsWs)
          [] re.t = "dot" -> Step(IsDot)
          [] re.t = "set" -> Step(InSet)
          [] re.t = "nset" -> Step(NotInSet)
          [] re.t = "cat" -> CatEnds(re.xs, 1, s, from, icase)
          [] re.t = "alt" ->
               UNION {Ends(re.xs[k], s, from, icase) : k \in 1..Len(re.xs)}
          [] re.t = "star" -> StarEnds(re.x, s, from, from, icase)

CatEnds(xs, k, s, from, icase) ==
    IF k > Len(xs) \/ from = {}
    THEN from
    ELSE CatEnds(xs, k + 1, s, Ends(xs[k], s, from, icase), icase)

StarEnds(x, s, frontier, acc, icase) ==
    LET new == Ends(x, s, frontier, icase) \ acc
    IN  IF new = {} THEN acc ELSE StarEnds(x, s, new, acc \cup new, icase)

\* re.search(pattern, s, re.IGNORECASE): a match starting anywhere.
Search(re, s) == Ends(re, s, 1..(Len(s) + 1), TRUE) # {}

\* re.match(pattern, s): a match starting at the first character.
Match(re, s) == Ends(re, s, {1}, FALSE) # {}

RECURSIVE SubFrom(_, _, _)
\* re.sub(re, '', s) from position i on: the leftmost match is dropped and
\* the scan resumes behind it; an unmatched character is copied.  The
\* patterns substituted here match at most one, non-empty, stretch from a
\* given start, so the end the matcher takes is the only one.
SubFrom(re, s, i) ==
    IF i > Len(s) THEN <<>>
    ELSE LET e == Ends(re, s, {i}, FALSE) \ {i}
         IN  IF e # {}
             THEN SubFrom(re, s, CHOOSE j \in e : TRUE)
             ELSE <<s[i]>> \o SubFrom(re, s, i + 1)

Sub(re, s) == SubFrom(re, s, 1)

(***************************************************************************)
(* RISKY_PATTERNS, in catalog order, and what each pattern compiles to.    *)
(***************************************************************************)
PipeToShell(tool) ==
    Cat(<<Str(tool), Plus(Ws), Star(Dot), Lit("|"), Star(Dot),
          Alt(<<Str(<<"b","a","s","h">>), Str(<<"s","h">>)>>)>>)

RISKY_PATTERNS == <<
    "rm\\s+-rf",
    "curl\\s+.*\\|.*(bash|sh)",
    "wget\\s+.*\\|.*(bash|sh)",
    "sudo\\s+.*(rm|dd|mkfs|chmod)",
    "chmod\\s+777",
    "dd\\s+if=/dev/zero",
    "os\\.(remove|unlink|rmdir)",
    "(requests\\.get|urllib\\.request\\.urlopen)\\s*\\(",
    "subprocess\\.(call|Popen|run)\\s*\\(\\s*[\"\\']?\\s*(sudo|rm|chmod|curl)"
>>

\* re.compile: the syntax tree of a pattern string ("." is no pattern of the
\* program; a caller of scan_file may pass it).
Compile(pattern) ==
    CASE pattern = "rm\\s+-rf" ->
           Cat(<<Str(<<"r","m">>), Plus(Ws), Str(<<"-","r","f">>)>>)
      [] pattern = "curl\\s+.*\\|.*(bash|sh)" ->
           PipeToShell(<<"c","u","r","l">>)
      [] pattern = "wget\\s+.*\\|.*(bash|sh)" ->
           PipeToShell(<<"w","g","e","t">>)
      [] pattern = "sudo\\s+.*(rm|dd|mkfs|chmod)" ->
           Cat(<<Str(<<"s","u","d","o">>), Plus(Ws), Star(Dot),
              Alt(<<Str(<<"r","m">>), Str(<<"d","d">>),
              Str(<<"m","k","f","s">>),
              Str(<<"c","h","m","o","d">>)>>)>>)
      [] pattern = "chmod\\s+777" ->
           Cat(<<Str(<<"c","h","m","o","d">>), Plus(Ws),
              Str(<<"7","7","7">>)>>)
      [] pattern = "dd\\s+if=/dev/zero" ->
           Cat(<<Str(<<"d","d">>), Plus(Ws),
              Str(<<"i","f","=","/","d","e","v","/","z","e","r","o">>)>>)
      [] pattern = "os\\.(remove|unlink|rmdir)" ->
           Cat(<<Str(<<"o","s",".">>),
              Alt(<<Str(<<"r","e","m","o","v","e">>),
              Str(<<"u","n","l","i","n","k">>),
              Str(<<"r","m","d","i","r">>)>>)>>)
      [] pattern = "(requests\\.get|urllib\\.request\\.urlopen)\\s*\\(" ->
           Cat(<<Alt(<<Str(<<"r","e","q","u","e","s","t","s",".","g","e","t">>),
              Str(<<"u","r","l","l","i","b",".","r","e","q","u","e",
              "s","t",".","u","r","l","o","p","e","n">>)>>),
              Star(Ws), Lit("(")>>)
      [] pattern = "subprocess\\.(call|Popen|run)\\s*\\(\\s*[\"\\']?\\s*(sudo|rm|chmod|curl)" ->
           Cat(<<Str(<<"s","u","b","p","r","o","c","e","s","s",".">>),
              Alt(<<Str(<<"c","a","l","l">>), Str(<<"P","o","p","e","n">>),
              Str(<<"r","u","n">>)>>),
              Star(Ws), Lit("("), Star(Ws), Opt(OneOf({"\"", "'"})), Star(Ws),
              Alt(<<Str(<<"s","u","d","o">>), Str(<<"r","m">>),
              Str(<<"c","h","m","o","d">>),
              Str(<<"c","u","r","l">>)>>)>>)
      [] pattern = "." -> Dot

(***************************************************************************)
(* The body of scan_file's loop over the lines.                            *)
(***************************************************************************)
RECURSIVE LStrip(_)
LStrip(s) ==
    IF s # <<>> /\ Head(s) \in Whitespace THEN LStrip(Tail(s)) ELSE s

RECURSIVE RStrip(_)
RStrip(s) ==
    IF s # <<>> /\ s[Len(s)] \in Whitespace
    THEN RStrip(SubSeq(s, 1, Len(s) - 1)) ELSE s

\* line.strip()
Strip(s) == RStrip(LStrip(s))

\* ^\s*(#|//|/\*)
CommentRe ==
    Cat(<<Star(Ws),
          Alt(<<Lit("#"), Str(<<"/","/">>), Str(<<"/","*">>)>>)>>)

\* IsComment with only the first alternative of the pattern.
IsCommentHashOnly(original_line) ==
    Match(Cat(<<Star(Ws), Lit("#")>>), original_line)

\* re.match(r'^\s*(#|//|/\*)', original_line)
IsComment(original_line) == Match(CommentRe, original_line)

\* The backquote character (the lexer of TLA+ takes none inside a string).
Backquote == "<backquote>"

Quotes == <<"\"", "'", Backquote>>

\* q[^q]*q for one delimiter q
QuotedBy(q) == Cat(<<Lit(q), Star(NoneOf({q})), Lit(q)>>)

\* QuoteRe without its third alternative.
QuoteReNoBackquote == Alt(<<QuotedBy(Quotes[1]), QuotedBy(Quotes[2])>>)

\* the three alternatives of the pattern of line 64, in its order
QuoteRe == Alt([k \in 1..Len(Quotes) |-> QuotedBy(Quotes[k])])

\* StripQuotes dropping the delimiters and keeping what they enclose.
StripQuoteMarks(original_line) ==
    SelectSeq(original_line, LAMBDA c : c \notin {Quotes[k] : k \in 1..Len(Quotes)})

\* line 64: re.sub(<the pattern>, '', original_line)
StripQuotes(original_line) == Sub(QuoteRe, original_line)

\* Truncate with >= for >.
TruncateFromLimit(original_line) ==
    IF Len(original_line) >= TruncLen
    THEN SubSeq(original_line, 1, TruncLen) \o <<".", ".", ".">>
    ELSE original_line

\* original_line[:100] + '...' if len(original_line) > 100 else original_line
Truncate(original_line) ==
    IF Len(original_line) > TruncLen
    THEN SubSeq(original_line, 1, TruncLen) \o <<".", ".", ".">>
    ELSE original_line

\* The compiled form of every pattern string of the model, computed once
\* (the re module caches what it compiles).
Regex == [p \in {RISKY_PATTERNS[k] : k \in 1..Len(RISKY_PATTERNS)} \cup {"."} |-> Compile(p)]

RECURSIVE FirstMatchFrom(_, _, _)
\* for pattern in patterns: if re.search(...): ...; break
\* The index of the pattern the loop stops at from index k on, 0 when it
\* runs to the end.
FirstMatchFrom(pats, text, k) ==
    IF k > Len(pats) THEN 0
    ELSE IF Search(Regex[pats[k]], text) THEN k
    ELSE FirstMatchFrom(pats, text, k + 1)

\* FirstMatch without the break: the last matching pattern is the one kept.
LastMatch(pats, text) ==
    LET hit == {k \in 1..Len(pats) : Search(Regex[pats[k]], text)}
    IN  IF hit = {} THEN 0 ELSE CHOOSE k \in hit : \A j \in hit : j <= k

FirstMatch(pats, text) == FirstMatchFrom(pats, text, 1)

RawLabel(p) == p

DeqLabel(p) == p \o " (de-quoted)"

Finding(file_path, n, label, original_line) ==
    [file |-> file_path, line |-> n, pattern |-> label,
     content |-> Truncate(original_line)]

\* lines 52-60
RawPass(file_path, n, original_line, pats) ==
    LET k == FirstMatch(pats, original_line)
    IN  IF k = 0 THEN <<>>
        ELSE <<Finding(file_path, n, RawLabel(pats[k]), original_line)>>

\* lines 64-73
DeqPass(file_path, n, original_line, pats) ==
    LET k == FirstMatch(pats, StripQuotes(original_line))
    IN  IF k = 0 THEN <<>>
        ELSE <<Finding(file_path, n, DeqLabel(pats[k]), original_line)>>

\* ScanLine with the two passes in the opposite order.
ScanLineDeqFirst(file_path, n, raw, pats) ==
    LET original_line == Strip(raw)
    IN  IF IsComment(original_line) THEN <<>>
        ELSE DeqPass(file_path, n, original_line, pats)
             \o RawPass(file_path, n, original_line, pats)

\* lines 46-73: what one physical line appends to matches
ScanLine(file_path, n, raw, pats) ==
    LET original_line == Strip(raw)
    IN  IF IsComment(original_line) THEN <<>>
        ELSE RawPass(file_path, n, original_line, pats)
             \o DeqPass(file_path, n, original_line, pats)

(***************************************************************************)
(* The single-line run: scan_file's loop body on one line, for every line  *)
(* built from at most MaxFrags fragments and every catalog of Catalogs.    *)
(***************************************************************************)
FragRm == <<"r","m"," ","-","r","f"," ","/","t","m","p","/","d","a","t","a">>

FragCurl == <<"c","m","d"," ","="," ","\"","c","u","r","l"," ","h","t","t","p",
              ":","/","/","x"," ","|"," ","b","a","s","h","\"">>

\* Two of these and FragRm make a line of exactly TruncLen characters.
FragPad == [k \in 1..((TruncLen - Len(FragRm)) \div 2) |-> "a"]

Fragments ==
    { <<" ">>, <<"#">>, <<"/","/">>, <<"/","*">>,
      <<"\"">>, <<"'">>, <<"S","U","D","O"," ">>,
      FragRm, FragCurl, FragPad }

RECURSIVE Concats(_, _)
\* The concatenations of at most n elements of the set fs of sequences.
Concats(fs, n) ==
    IF n = 0 THEN {<<>>}
    ELSE LET prev == Concats(fs, n - 1)
         IN  prev \cup {f \o s : f \in fs, s \in prev}

\* A physical line as the file iterator delivers it: text without a newline,
\* then the newline.
FragLines == {t \o <<"\n">> : t \in Concats(Fragments, MaxFrags)}

Reverse(s) == [k \in 1..Len(s) |-> s[Len(s) + 1 - k]]

\* Catalogs a caller may hand to scan_file: the program's own, and the same
\* in the opposite order followed by a pattern that matches any character.
Catalogs == {RISKY_PATTERNS, Reverse(RISKY_PATTERNS) \o <<".">>}

LinePath == <<"a.py">>

MainIdle ==
    /\ pc = "idle"
    /\ target_dir = <<>>
    /\ files = <<>>
    /\ idx = 0
    /\ calls = <<>>
    /\ line_num = 0
    /\ content = <<>>
    /\ matches = <<>>
    /\ all_matches = <<>>
    /\ errors = <<>>
    /\ dir_errors = 0
    /\ reported = <<>>

InitLine ==
    /\ MainIdle
    /\ line \in FragLines
    /\ patterns \in Catalogs
    /\ result = <<>>
    /\ stripped = <<>>
    /\ phase = "in"

\* One iteration of the loop of line 45, on the first line of a file.
ScanOneLine ==
    /\ phase = "in"
    /\ result' = ScanLine(LinePath, 1, line, patterns)
    /\ phase' = "out"
    /\ UNCHANGED <<line, patterns, stripped>>
    /\ UNCHANGED mainVars

SpecLine == InitLine /\ [][ScanOneLine]_vars

(***************************************************************************)
(* The stripper run: line 64 on every string of at most MaxLen characters  *)
(* over the three delimiters and one other character.                      *)
(***************************************************************************)
QuoteAlphabet == {<<Quotes[k]>> : k \in 1..Len(Quotes)} \cup {<<"a">>}

InitStrip ==
    /\ MainIdle
    /\ line \in Concats(QuoteAlphabet, MaxLen)
    /\ patterns = RISKY_PATTERNS
    /\ result = <<>>
    /\ stripped = <<>>
    /\ phase = "in"

StripOneLine ==
    /\ phase = "in"
    /\ stripped' = StripQuotes(line)
    /\ phase' = "out"
    /\ UNCHANGED <<line, patterns, result>>
    /\ UNCHANGED mainVars

SpecStrip == InitStrip /\ [][StripOneLine]_vars

(***************************************************************************)
(* The file system main runs in.  A path is the sequence of its            *)
(* components, an absolute one starts with "/".                            *)
(*                                                                         *)
(*   /w/proj/scriptsnoop.py   the scanner, run from /w/proj                *)
(*   /w/proj/a.py                                                          *)
(*   /w/proj/b.sh                                                          *)
(*   /w/empty/notes.txt                                                    *)
(*   /w/lnk -> /w/proj        a symbolic link to the directory             *)
(***************************************************************************)
HasPrefixPath(p, pre) == Len(p) >= Len(pre) /\ SubSeq(p, 1, Len(pre)) = pre

Cwd == <<"/", "w", "proj">>

\* os.path.abspath(__file__)
ScriptFile == <<"/", "w", "proj", "scriptsnoop.py">>

RealDirs == {<<"/">>, <<"/", "w">>, <<"/", "w", "proj">>, <<"/", "w", "empty">>}

RealFiles ==
    { <<"/", "w", "proj", "scriptsnoop.py">>,
      <<"/", "w", "proj", "a.py">>,
      <<"/", "w", "proj", "b.sh">>,
      <<"/", "w", "empty", "notes.txt">> }

LinkFrom == <<"/", "w", "lnk">>

LinkTo == <<"/", "w", "proj">>

\* The file or directory the operating system reaches by an absolute path:
\* a leading symbolic link is followed.
Realpath(p) ==
    IF HasPrefixPath(p, LinkFrom)
    THEN LinkTo \o SubSeq(p, Len(LinkFrom) + 1, Len(p))
    ELSE p

RECURSIVE NormFrom(_, _, _)
\* os.path.normpath, component by component: "." is dropped, ".." cancels
\* the component before it (the text of the path decides, links are not
\* looked at), stays at the root and is kept at the head of a relative path.
NormFrom(p, k, acc) ==
    IF k > Len(p) THEN acc
    ELSE IF p[k] = "." THEN NormFrom(p, k + 1, acc)
    ELSE IF p[k] = ".."
         THEN IF acc = <<"/">> THEN NormFrom(p, k + 1, acc)
              ELSE IF acc = <<>> \/ acc[Len(acc)] = ".."
                   THEN NormFrom(p, k + 1, acc \o <<"..">>)
                   ELSE NormFrom(p, k + 1, SubSeq(acc, 1, Len(acc) - 1))
    ELSE NormFrom(p, k + 1, acc \o <<p[k]>>)

Normpath(p) ==
    LET n == NormFrom(p, 1, <<>>) IN IF n = <<>> THEN <<".">> ELSE n

\* os.path.abspath: normpath(join(os.getcwd(), path))
Abspath(p) ==
    IF p # <<>> /\ p[1] = "/" THEN Normpath(p) ELSE Normpath(Cwd \o p)

\* Exists with the test left out.
ExistsAlways(p) == TRUE

\* os.path.exists
Exists(p) == Realpath(Abspath(p)) \in RealDirs \cup RealFiles

extensions == <<"*.py", "*.sh", "*.bat">>

\* fnmatch of a file name against one of the extension globs
NameMatches(name, ext) ==
    \/ ext = "*.py" /\ name \in {"scriptsnoop.py", "a.py"}
    \/ ext = "*.sh" /\ name \in {"b.sh"}

\* glob.glob(os.path.join(directory, '**', ext), recursive=True): the files
\* at any depth under the directory, each named through the directory as
\* it was given.
Glob(directory, ext) ==
    LET root == Realpath(Abspath(directory))
    IN  { directory \o SubSeq(f, Len(root) + 1, Len(f)) :
            f \in { g \in RealFiles :
                      /\ root \in RealDirs
                      /\ Len(g) > Len(root)
                      /\ SubSeq(g, 1, Len(root)) = root
                      /\ NameMatches(g[Len(g)], ext) } }

\* The orders in which a directory listing can deliver the paths of S.
Orders(S) ==
    { o \in [1..Cardinality(S) -> S] : \A x \in S : \E k \in DOMAIN o : o[k] = x }

\* find_risky_files: the possible results, extension by extension.
find_risky_files(directory) ==
    { o1 \o o2 \o o3 :
        o1 \in Orders(Glob(directory, extensions[1])),
        o2 \in Orders(Glob(directory, extensions[2])),
        o3 \in Orders(Glob(directory, extensions[3])) }

\* What the operator may type at the prompt, split at the separators;
\* <<>> is the bare Enter key.
TargetInputs ==
    { <<>>, <<".">>, <<"..", "proj">>, <<"..", "lnk">>, <<"..", "empty">>,
      <<"..", "nodir">>, <<"a.py">> }

\* The physical lines a file of the model may deliver.
MainLines ==
    { FragRm \o <<"\n">>,
      <<"#", " ">> \o FragRm \o <<"\n">>,
      <<" ", "\t", "\n">>,
      <<"\n">> }

(***************************************************************************)
(* main and scan_file.                                                     *)
(***************************************************************************)
Init ==
    /\ pc = "prompt"
    /\ target_dir = <<>>
    /\ files = <<>>
    /\ idx = 0
    /\ calls = <<>>
    /\ line_num = 0
    /\ content = <<>>
    /\ matches = <<>>
    /\ all_matches = <<>>
    /\ errors = <<>>
    /\ dir_errors = 0
    /\ reported = <<>>
    /\ line = <<>>
    /\ patterns = RISKY_PATTERNS
    /\ result = <<>>
    /\ stripped = <<>>
    /\ phase = "main"

\* lines 84-103: the prompt, the existence test and the enumeration
MainStart ==
    /\ pc = "prompt"
    /\ \E typed \in TargetInputs :
        LET dir == Normpath(IF typed = <<>> THEN <<".">> ELSE typed)
        IN  /\ target_dir' = dir
            /\ IF ~Exists(dir)
               THEN /\ dir_errors' = dir_errors + 1
                    /\ pc' = "no_dir"
                    /\ UNCHANGED <<files, idx, calls>>
               ELSE /\ UNCHANGED dir_errors
                    /\ \E found \in find_risky_files(dir) :
                          /\ files' = found
                          /\ calls' = [k \in 1..Len(found) |-> 0]
                          /\ IF found = <<>>
                             THEN pc' = "no_files" /\ UNCHANGED idx
                             ELSE pc' = "scan" /\ idx' = 1
    /\ UNCHANGED <<line_num, content, matches, all_matches, errors, reported>>
    /\ UNCHANGED lineVars

\* lines 107-108 once scan_file has returned returned_matches
ReturnToMain(returned_matches) ==
    /\ all_matches' = all_matches \o returned_matches
    /\ idx' = idx + 1
    /\ pc' = "scan"

\* lines 38-44: scan_file is called on files[idx]; it returns at once on
\* the scanner's own path, and otherwise opens the file, which may fail.
ScanFileOpen ==
    /\ pc = "scan"
    /\ idx <= Len(files)
    /\ calls' = [calls EXCEPT ![idx] = @ + 1]
    /\ matches' = <<>>
    /\ line_num' = 0
    /\ content' = <<>>
    /\ IF Abspath(files[idx]) = Abspath(ScriptFile)
       THEN ReturnToMain(<<>>) /\ UNCHANGED errors
       ELSE \/ pc' = "read" /\ UNCHANGED <<all_matches, idx, errors>>
            \/ /\ errors' = Append(errors, files[idx])
               /\ ReturnToMain(<<>>)
    /\ UNCHANGED <<target_dir, files, dir_errors, reported>>
    /\ UNCHANGED lineVars

\* ReadLine numbering only the lines that are not blank.
ReadLineBlankUncounted ==
    /\ pc = "read"
    /\ Len(content) < MaxLines
    /\ \E raw \in MainLines :
          /\ line_num' = (IF Strip(raw) = <<>> THEN line_num ELSE line_num + 1)
          /\ content' = Append(content, raw)
          /\ matches' = matches \o ScanLine(files[idx], line_num', raw, RISKY_PATTERNS)
    /\ UNCHANGED <<pc, target_dir, files, idx, calls, all_matches, errors,
                   dir_errors, reported>>
    /\ UNCHANGED lineVars

\* lines 45-73: the file delivers one more line, which enumerate(f, 1)
\* numbers and the loop body scans
ReadLine ==
    /\ pc = "read"
    /\ line_num < MaxLines
    /\ \E raw \in MainLines :
          /\ line_num' = line_num + 1
          /\ content' = Append(content, raw)
          /\ matches' = matches \o ScanLine(files[idx], line_num', raw, RISKY_PATTERNS)
    /\ UNCHANGED <<pc, target_dir, files, idx, calls, all_matches, errors,
                   dir_errors, reported>>
    /\ UNCHANGED lineVars

\* line 77 after the loop ended at the end of the file
ReadEOF ==
    /\ pc = "read"
    /\ ReturnToMain(matches)
    /\ UNCHANGED <<target_dir, files, calls, line_num, content, matches, errors,
                   dir_errors, reported>>
    /\ UNCHANGED lineVars

\* lines 75-77: reading raises; the handler prints and scan_file returns
\* its list as it stands.
ReadError ==
    /\ pc = "read"
    /\ errors' = Append(errors, files[idx])
    /\ ReturnToMain(matches)
    /\ UNCHANGED <<target_dir, files, calls, line_num, content, matches,
                   dir_errors, reported>>
    /\ UNCHANGED lineVars

\* lines 110-116 once the loop over the files has ended
Report ==
    /\ pc = "scan"
    /\ idx > Len(files)
    /\ IF all_matches # <<>>
       THEN pc' = "report" /\ reported' = all_matches
       ELSE pc' = "clean" /\ UNCHANGED reported
    /\ UNCHANGED <<target_dir, files, idx, calls, line_num, content, matches,
                   all_matches, errors, dir_errors>>
    /\ UNCHANGED lineVars

Next ==
    \/ MainStart
    \/ ScanFileOpen
    \/ ReadLine
    \/ ReadEOF
    \/ ReadError
    \/ Report

Spec == Init /\ [][Next]_vars

(***************************************************************************)
(* Vocabulary of the properties of the single-line run.                    *)
(***************************************************************************)
HasPrefix(s, pre) == Len(s) >= Len(pre) /\ SubSeq(s, 1, Len(pre)) = pre

\* The first n characters of s, all of s when it is shorter.
Take(s, n) == SubSeq(s, 1, IF Len(s) < n THEN Len(s) ELSE n)

\* The trimmed text begins with a comment-opening token.
BeginsWithCommentToken(s) ==
    \/ HasPrefix(s, <<"#">>)
    \/ HasPrefix(s, <<"/", "/">>)
    \/ HasPrefix(s, <<"/", "*">>)

\* The trimmed text of the line of the single-line run.
Trimmed == Strip(line)

RawLabels == {patterns[k] : k \in 1..Len(patterns)}

DeqLabels == {patterns[k] \o " (de-quoted)" : k \in 1..Len(patterns)}

IsRawFinding(f) == f.pattern \in RawLabels

IsDeqFinding(f) == f.pattern \in DeqLabels

\* The catalog indexes whose pattern matches text.
Hits(text) == {k \in 1..Len(patterns) : Search(Regex[patterns[k]], text)}

Least(S) == CHOOSE k \in S : \A j \in S : k <= j

\* The text of s outside positions i..j.
Outside(s, i, j) == SubSeq(s, 1, i - 1) \o SubSeq(s, j + 1, Len(s))

IsQuote(c) == \E k \in 1..Len(Quotes) : Quotes[k] = c

QuotePositions(s) == {k \in 1..Len(s) : IsQuote(s[k])}

\* s holds exactly one quoted region, at i..j: a pair of the same delimiter
\* with no further delimiter of that type between them and no delimiter of
\* any type outside them.
OneRegion(s, i, j) ==
    /\ 1 <= i /\ i < j /\ j <= Len(s)
    /\ IsQuote(s[i]) /\ s[j] = s[i]
    /\ \A k \in (i + 1)..(j - 1) : s[k] # s[i]
    /\ \A k \in 1..Len(s) : (k < i \/ k > j) => ~IsQuote(s[k])

(***************************************************************************)
(* C1: a line whose trimmed text begins with #, // or /* gives no finding  *)
(* from either pass, whatever the catalog holds.                           *)
(***************************************************************************)
C1_CommentLinesSilent ==
    (phase = "out" /\ BeginsWithCommentToken(Trimmed)) => result = <<>>

\* A comment line that a pattern of the catalog matches has been scanned.
C1_Witness ==
    /\ phase = "out"
    /\ BeginsWithCommentToken(Trimmed)
    /\ Hits(Trimmed) # {}
    /\ Hits(StripQuotes(Trimmed)) # {}
    /\ result = <<>>

(***************************************************************************)
(* C2: on a non-comment line each pass is first-match-only: it emits one   *)
(* finding, labelled by the matching pattern of least catalog index (with  *)
(* " (de-quoted)" appended in the de-quoted pass), when some pattern       *)
(* matches its text and nothing otherwise; so a line has at most two       *)
(* findings, at most one per pass.                                         *)
(***************************************************************************)
C2_FirstMatchOnly ==
    (phase = "out" /\ ~BeginsWithCommentToken(Trimmed)) =>
        LET raws == SelectSeq(result, IsRawFinding)
            deqs == SelectSeq(result, IsDeqFinding)
            rawHits == Hits(Trimmed)
            deqHits == Hits(StripQuotes(Trimmed))
        IN  /\ Len(result) = Len(raws) + Len(deqs)
            /\ Len(result) <= 2
            /\ Len(raws) = (IF rawHits = {} THEN 0 ELSE 1)
            /\ Len(deqs) = (IF deqHits = {} THEN 0 ELSE 1)
            /\ rawHits # {} => raws[1].pattern = patterns[Least(rawHits)]
            /\ deqHits # {} =>
                   deqs[1].pattern = patterns[Least(deqHits)] \o " (de-quoted)"

\* A non-comment line that several patterns match in each pass was scanned.
C2_Witness ==
    /\ phase = "out"
    /\ ~BeginsWithCommentToken(Trimmed)
    /\ Cardinality(Hits(Trimmed)) >= 2
    /\ Cardinality(Hits(StripQuotes(Trimmed))) >= 2
    /\ Len(result) = 2

(***************************************************************************)
(* C4: the content of every finding, of either pass, comes from the        *)
(* trimmed line: its first 100 characters and then "..." when the trimmed  *)
(* line is longer than 100 characters, the trimmed line itself otherwise.  *)
(***************************************************************************)
C4_ContentTruncation ==
    phase = "out" =>
        \A k \in 1..Len(result) :
            IF Len(Trimmed) > 100
            THEN /\ Len(result[k].content) = 103
                 /\ SubSeq(result[k].content, 1, 100) = SubSeq(Trimmed, 1, 100)
                 /\ SubSeq(result[k].content, 101, 103) = <<".", ".", ".">>
            ELSE result[k].content = Trimmed

\* A line longer than 100 characters gave a finding.
C4_Witness ==
    /\ phase = "out"
    /\ Len(Trimmed) > 100
    /\ result # <<>>

(***************************************************************************)
(* C7: on a non-comment line with exactly one quoted region whose text     *)
(* outside the region no catalog pattern matches, the de-quoted pass emits *)
(* nothing, also when the raw pass emits a finding.                        *)
(***************************************************************************)
C7_QuotedRiskOnlyRaw ==
    phase = "out" =>
        \A i, j \in QuotePositions(Trimmed) :
            ( /\ ~BeginsWithCommentToken(Trimmed)
              /\ OneRegion(Trimmed, i, j)
              /\ Hits(Outside(Trimmed, i, j)) = {} )
            => \A k \in 1..Len(result) : ~IsDeqFinding(result[k])

\* The line cmd = "curl http://x | bash" gave its one raw finding.
C7_Witness ==
    /\ phase = "out"
    /\ Trimmed = FragCurl
    /\ patterns = RISKY_PATTERNS
    /\ \E i, j \in QuotePositions(Trimmed) :
           OneRegion(Trimmed, i, j) /\ Hits(Outside(Trimmed, i, j)) = {}
    /\ Len(result) = 1
    /\ IsRawFinding(result[1])

(***************************************************************************)
(* Vocabulary of the properties of the stripper run.                       *)
(***************************************************************************)
RECURSIVE RemovePairs(_, _, _)
\* One left-to-right removal pass over the delimiters of the set ds, from
\* position i on: a delimiter of ds that has a later occurrence of itself
\* opens a region that ends at the first such occurrence and is dropped;
\* every other character, an unterminated delimiter included, is kept.
RemovePairs(ds, s, i) ==
    IF i > Len(s) THEN <<>>
    ELSE LET closers == {j \in (i + 1)..Len(s) : s[j] = s[i]}
         IN  IF s[i] \in ds /\ closers # {}
             THEN RemovePairs(ds, s, Least(closers) + 1)
             ELSE <<s[i]>> \o RemovePairs(ds, s, i + 1)

\* Three separate passes, one per delimiter type, in the order of line 64.
ThreePasses(s) ==
    RemovePairs({Quotes[3]},
        RemovePairs({Quotes[2]},
            RemovePairs({Quotes[1]}, s, 1), 1), 1)

\* No delimiter of one type lies between two delimiters of another type.
Unmixed(s) ==
    \A i, j, k \in QuotePositions(s) :
        (i < k /\ k < j /\ s[i] = s[j]) => s[k] = s[i]

(***************************************************************************)
(* C10, as stated: for every line the stripper's output equals the result  *)
(* of three separate removal passes, one per delimiter type.               *)
(***************************************************************************)
C10_Original ==
    phase = "out" => stripped = ThreePasses(line)

(***************************************************************************)
(* C10, amended: the stripper is one left-to-right pass over the three     *)
(* delimiter types together, and it equals the three separate passes on    *)
(* every line where no delimiter of one type lies between two delimiters   *)
(* of another type; an unterminated delimiter stays.                       *)
(***************************************************************************)
C10_SinglePass ==
    phase = "out" =>
        /\ stripped = RemovePairs({Quotes[k] : k \in 1..Len(Quotes)}, line, 1)
        /\ Unmixed(line) => stripped = ThreePasses(line)

\* A line with delimiters of two types, none between a pair of the other
\* type, lost a region and kept an unterminated delimiter.
C10_Witness ==
    /\ phase = "out"
    /\ Unmixed(line)
    /\ Cardinality({line[k] : k \in QuotePositions(line)}) >= 2
    /\ Len(stripped) < Len(line)
    /\ QuotePositions(stripped) # {}

(***************************************************************************)
(* Vocabulary of the properties of main.                                   *)
(***************************************************************************)
TerminalStates == {"no_dir", "no_files", "clean", "report"}

ProgramRawLabels == {RISKY_PATTERNS[k] : k \in 1..Len(RISKY_PATTERNS)}

ProgramDeqLabels ==
    {RISKY_PATTERNS[k] \o " (de-quoted)" : k \in 1..Len(RISKY_PATTERNS)}

\* The position of a path in the enumeration (the paths of one enumeration
\* differ from each other).
FileIndex(path) == CHOOSE k \in 1..Len(files) : files[k] = path

\* Finding f may stand before finding g in discovery order.
MayPrecede(f, g) ==
    \/ FileIndex(f.file) < FileIndex(g.file)
    \/ /\ f.file = g.file
       /\ f.line < g.line
    \/ /\ f.file = g.file
       /\ f.line = g.line
       /\ f.pattern \in ProgramRawLabels
       /\ g.pattern \in ProgramDeqLabels

\* Finding f of the open file carries the number of the physical line it
\* was made from.
AtPhysicalPosition(f) ==
    /\ f.line \in 1..Len(content)
    /\ ~BeginsWithCommentToken(Strip(content[f.line]))
    /\ Hits(Strip(content[f.line])) # {}
    /\ Take(f.content, 100) = Take(Strip(content[f.line]), 100)

\* The file the operating system reaches by the path of a finding.
FileOf(path) == Realpath(Abspath(path))

(***************************************************************************)
(* C3: the aggregated findings are in discovery order: by position of the  *)
(* file in the enumeration, then by line number, which is the 1-based      *)
(* physical position of the line (blank and comment lines counted), then   *)
(* the raw finding of a line before its de-quoted finding.                 *)
(***************************************************************************)
C3_DiscoveryOrder ==
    /\ \A i, j \in 1..Len(all_matches) :
          i < j => MayPrecede(all_matches[i], all_matches[j])
    /\ pc = "report" => reported = all_matches
    /\ pc = "read" =>
          /\ \A i, j \in 1..Len(matches) :
                i < j => MayPrecede(matches[i], matches[j])
          /\ \A k \in 1..Len(matches) :
                matches[k].file = files[idx] /\ AtPhysicalPosition(matches[k])

\* A finished scan found something in two files, in one of them on the
\* second line of the file.
C3_Witness ==
    /\ pc = "report"
    /\ \E i, j \in 1..Len(all_matches) :
          /\ all_matches[i].file # all_matches[j].file
          /\ all_matches[i].line = 2
    /\ \E i, j \in 1..Len(all_matches) :
          /\ i < j
          /\ all_matches[i].file = all_matches[j].file
          /\ all_matches[i].line = all_matches[j].line

(***************************************************************************)
(* C5: a file whose opening or reading failed, at the open or after some   *)
(* lines were scanned, has its error reported and contributes no finding,  *)
(* and every file enumerated after it is still scanned.                    *)
(***************************************************************************)
C5_FailedFileContributesNothing ==
    pc \in {"clean", "report"} =>
        /\ \A e \in 1..Len(errors) :
              \A k \in 1..Len(all_matches) : all_matches[k].file # errors[e]
        /\ \A k \in 1..Len(files) : calls[k] = 1

(***************************************************************************)
(* C6: when the scanned tree holds the scanner's own source file, no       *)
(* finding of the aggregated result is a finding in that file.             *)
(***************************************************************************)
C6_SelfExclusion ==
    \A k \in 1..Len(all_matches) :
        FileOf(all_matches[k].file) # FileOf(ScriptFile)

C9_BlankLinesSkippedButCounted ==
    pc = "read" =>
        /\ line_num = Len(content)
        /\ \A k \in 1..Len(content) :
              Strip(content[k]) = <<>> =>
                  \A m \in 1..Len(matches) : matches[m].line # k
        /\ \A m \in 1..Len(matches) :
              /\ matches[m].line \in 1..Len(content)
              /\ Strip(content[matches[m].line]) # <<>>
              /\ Take(matches[m].content, 100)
                     = Take(Strip(content[matches[m].line]), 100)

\* A blank first line was skipped and the line after it gave findings
\* numbered 2.
C9_Witness ==
    /\ pc = "read"
    /\ Len(content) = 2
    /\ Strip(content[1]) = <<>>
    /\ matches # <<>>
    /\ \A m \in 1..Len(matches) : matches[m].line = 2

====
